---- MODULE Spec2Model ----
(***************************************************************************)
(* Phase-one script checks of crates/uplc/src/tx/phase_one.rs:             *)
(* scripts_needed, validate_missing_scripts, has_exact_set_of_redeemers,   *)
(* build_redeemer_key and the driver eval_phase_one.                       *)
(*                                                                         *)
(* A byte string (address, reward account) is a sequence <<header, h>>:    *)
(* the header byte followed by the credential hash, a 28-byte hash being   *)
(* abstracted to one number.  A call's outcome is a record whose kind is   *)
(* "Ok", "Err" (an Error value returned) or "Panic" (unwrap, assert! or    *)
(* unreachable! unwinding the call).                                       *)
(*                                                                         *)
(* An optional container of the body (withdrawals, certificates, mint) and *)
(* the optional redeemer map are sequences: the code reads None as the     *)
(* empty container (as_deref().map(..).unwrap_or_default()).  The optional *)
(* proposal_procedures and voting_procedures are booleans: present or not. *)
(***************************************************************************)
EXTENDS Integers, Sequences, FiniteSets, TLC

VARIABLES tx, utxos, scripts, pc, needed, result

vars == <<tx, utxos, scripts, pc, needed, result>>

----------------------------------------------------------------------------
(* The explored inputs *)

\* entries of a call's inputs in total: inputs, withdrawals, certificates, minted
\* policies and governance fields of the body, scripts of the table, redeemers
MaxSize == 3

\* script hashes (and key hashes)
Hashes == {1, 2}

OutputRefs == [transaction_id : {1, 2}, index : {0, 1}]

\* addresses of resolved outputs, <<header, hash>>: 0x60 enterprise/key, 0x70
\* enterprise/script, 0x90 no address type
Addresses == {<<96, 1>>, <<144, 1>>} \cup {<<112, h>> : h \in Hashes}

\* reward accounts, <<header, hash>>: 0x70 enterprise/script, 0x90 no address type,
\* 0xE0 stake/key, 0xF0 and 0xF1 stake/script on two networks
RewardAccounts == {<<112, 1>>, <<144, 1>>, <<224, 1>>}
                    \cup {<<hd, h>> : hd \in {240, 241}, h \in Hashes}

ScriptVersions == {"Native", "V1", "V2", "V3"}

RedeemerTags == {"Spend", "Mint", "Reward", "Cert"}

AddrKeyhash(h) == [tag |-> "AddrKeyhash", hash |-> h]
Scripthash(h) == [tag |-> "Scripthash", hash |-> h]

Certificate(kind, cred) == [kind |-> kind, cred |-> cred]

Certificates ==
    {Certificate("StakeRegistration", Scripthash(1)),
     Certificate("StakeDeregistration", AddrKeyhash(1))}
      \cup {Certificate(k, Scripthash(h)) : k \in {"StakeDeregistration", "StakeDelegation"},
                                            h \in Hashes}

----------------------------------------------------------------------------
(* Helpers on sequences *)

Range(s) == {s[i] : i \in DOMAIN s}

Contains(s, x) == \E i \in DOMAIN s : s[i] = x

\* Iterator::position: index (from 0) of the first element equal to x, or -1 (None)
Position(s, x) ==
    IF Contains(s, x) THEN (CHOOSE i \in DOMAIN s : s[i] = x /\ \A j \in 1..(i - 1) : s[j] # x) - 1
    ELSE -1

\* Ord of byte strings and of tuples: lexicographic
RECURSIVE LexLess(_, _)
LexLess(a, b) ==
    IF b = <<>> THEN FALSE
    ELSE IF a = <<>> THEN TRUE
    ELSE IF Head(a) # Head(b) THEN Head(a) < Head(b)
    ELSE LexLess(Tail(a), Tail(b))

\* stable insertion of the pair x = <<key, value>> into the sequence s sorted by key
RECURSIVE InsertSorted(_, _)
InsertSorted(s, x) ==
    IF s = <<>> THEN <<x>>
    ELSE IF LexLess(x[1], Head(s)[1]) THEN <<x>> \o s
    ELSE <<Head(s)>> \o InsertSorted(Tail(s), x)

\* stable sort of <<key, value>> pairs by key: inserted from the last to the first
RECURSIVE SortPairs(_)
SortPairs(s) ==
    IF s = <<>> THEN <<>>
    ELSE InsertSorted(SortPairs(Tail(s)), Head(s))

Values(s) == [i \in DOMAIN s |-> s[i][2]]

\* injective sequences of length n over S
RECURSIVE SeqsNoDup(_, _)
SeqsNoDup(S, n) ==
    IF n = 0 THEN {<<>>}
    ELSE UNION {{<<x>> \o t : t \in SeqsNoDup(S \ {x}, n - 1)} : x \in S}

----------------------------------------------------------------------------
(* Sort keys *)

\* a comparator that leaves the index out
InputKey_TxIdOnly(i) == <<i.transaction_id>>

\* the comparator passed to sorted_by for inputs: transaction_id, then index
InputKey(i) == <<i.transaction_id, i.index>>

\* Ord of PolicyId
PolicyKey(p) == <<p>>

\* Ord of RewardAccount, a byte string
AccountKey(a) == a

\* the inputs left in the order of tx.inputs
SortedInputs_Unsorted(inputs) == inputs

SortedInputs(inputs) == Values(SortPairs([i \in DOMAIN inputs |-> <<InputKey(inputs[i]), inputs[i]>>]))
SortedPolicies(mint) == Values(SortPairs([i \in DOMAIN mint |-> <<PolicyKey(mint[i]), mint[i]>>]))
SortedAccounts(w) == Values(SortPairs([i \in DOMAIN w |-> <<AccountKey(w[i]), w[i]>>]))

----------------------------------------------------------------------------
(* Address::from_bytes, by the header's type nibble *)

AddressFromBytes(b) ==
    LET type == b[1] \div 16
        h == b[2]
    IN  IF type \in 0..7
        THEN [ok |-> TRUE, variant |-> "Shelley",
              payload |-> IF type % 2 = 1 THEN "Script" ELSE "Key", hash |-> h]
        ELSE IF type = 8
        THEN [ok |-> TRUE, variant |-> "Byron", payload |-> "Key", hash |-> h]
        ELSE IF type \in {14, 15}
        THEN [ok |-> TRUE, variant |-> "Stake",
              payload |-> IF type = 15 THEN "Script" ELSE "Key", hash |-> h]
        ELSE [ok |-> FALSE, variant |-> "Invalid", payload |-> "Key", hash |-> h]

----------------------------------------------------------------------------
(* Outcomes of a call *)

Outcome(k, e, n, m, x) ==
    [kind |-> k, error |-> e, needed |-> n, missing |-> m, extra |-> x]

Ok == Outcome("Ok", "", <<>>, <<>>, <<>>)
OkNeeded(n) == Outcome("Ok", "", n, <<>>, <<>>)
Err(e) == Outcome("Err", e, <<>>, <<>>, <<>>)
Mismatch(e, m, x) == Outcome("Err", e, <<>>, m, x)
Panic(e) == Outcome("Panic", e, <<>>, <<>>, <<>>)
PanicMismatch(e, m, x) == Outcome("Panic", e, <<>>, m, x)
NotCalled == Outcome("None", "", <<>>, <<>>, <<>>)

----------------------------------------------------------------------------
(* Script purposes *)

Spending(input) == [tag |-> "Spending", input |-> input]
Rewarding(cred) == [tag |-> "Rewarding", cred |-> cred]
Certifying(cert) == [tag |-> "Certifying", cert |-> cert]
Minting(policy) == [tag |-> "Minting", policy |-> policy]

Entry(purpose, hash) == [purpose |-> purpose, hash |-> hash]

----------------------------------------------------------------------------
(* scripts_needed *)

\* utxos.iter().find(|utxo| utxo.input == *input): index of the first match, 0 if none
FindUtxo(us, input) ==
    IF \E i \in DOMAIN us : us[i].input = input
    THEN CHOOSE i \in DOMAIN us : us[i].input = input /\ \A j \in 1..(i - 1) : us[j].input # input
    ELSE 0

\* the loop over txb.inputs; acc is the vector `spend` so far
RECURSIVE SpendPass(_, _, _)
SpendPass(inputs, us, acc) ==
    IF inputs = <<>> THEN OkNeeded(acc)
    ELSE LET input == Head(inputs)
             i == FindUtxo(us, input)
         IN  IF i = 0 THEN Err("ResolvedInputNotFound")
             ELSE LET address == AddressFromBytes(us[i].address)
                  IN  IF ~address.ok THEN Err("AddressDecode")
                      ELSE IF address.variant = "Shelley" /\ address.payload = "Script"
                      THEN SpendPass(Tail(inputs), us,
                                     Append(acc, Entry(Spending(input), address.hash)))
                      ELSE SpendPass(Tail(inputs), us, acc)

\* the filter_map over txb.withdrawals; from_bytes(..).unwrap() panics
RECURSIVE RewardPass(_, _)
RewardPass(withdrawals, acc) ==
    IF withdrawals = <<>> THEN OkNeeded(acc)
    ELSE LET address == AddressFromBytes(Head(withdrawals))
         IN  IF ~address.ok THEN Panic("unwrap")
             ELSE IF address.variant = "Stake" /\ address.payload = "Script"
             THEN RewardPass(Tail(withdrawals),
                             Append(acc, Entry(Rewarding(Scripthash(address.hash)), address.hash)))
             ELSE RewardPass(Tail(withdrawals), acc)

\* only Dereg and Deleg certs can require scripts
RECURSIVE CertPass(_, _)
CertPass(certificates, acc) ==
    IF certificates = <<>> THEN acc
    ELSE LET cert == Head(certificates)
         IN  IF cert.kind \in {"StakeDeregistration", "StakeDelegation"}
                  /\ cert.cred.tag = "Scripthash"
             THEN CertPass(Tail(certificates), Append(acc, Entry(Certifying(cert), cert.cred.hash)))
             ELSE CertPass(Tail(certificates), acc)

MintPass(mint) == [i \in DOMAIN mint |-> Entry(Minting(mint[i]), mint[i])]

\* the minting purposes appended before the certifying ones
ScriptsNeededOf_MintBeforeCert(t, us) ==
    LET spend == SpendPass(t.inputs, us, <<>>)
        reward == RewardPass(t.withdrawals, <<>>)
        cert == CertPass(t.certificates, <<>>)
        mint == MintPass(t.mint)
    IN  IF spend.kind # "Ok" THEN spend
        ELSE IF reward.kind # "Ok" THEN reward
        ELSE IF t.proposal_procedures THEN Panic("assert proposal_procedures")
        ELSE IF t.voting_procedures THEN Panic("assert voting_procedures")
        ELSE OkNeeded(spend.needed \o reward.needed \o mint \o cert)

ScriptsNeededOf(t, us) ==
    LET spend == SpendPass(t.inputs, us, <<>>)
        reward == RewardPass(t.withdrawals, <<>>)
        cert == CertPass(t.certificates, <<>>)
        mint == MintPass(t.mint)
    IN  IF spend.kind # "Ok" THEN spend
        ELSE IF reward.kind # "Ok" THEN reward
        ELSE IF t.proposal_procedures THEN Panic("assert proposal_procedures")
        ELSE IF t.voting_procedures THEN Panic("assert voting_procedures")
        ELSE OkNeeded(spend.needed \o reward.needed \o cert \o mint)

----------------------------------------------------------------------------
(* validate_missing_scripts *)

\* txscripts.keys() as a vector; a HashMap iterates in no specified order, and the
\* order only arranges the text of the panic message: ascending here
RECURSIVE KeysOf(_)
KeysOf(txscripts) ==
    IF DOMAIN txscripts = {} THEN <<>>
    ELSE LET least == CHOOSE h \in DOMAIN txscripts : \A g \in DOMAIN txscripts : h <= g
         IN  <<least>> \o KeysOf([g \in DOMAIN txscripts \ {least} |-> txscripts[g]])

ValidateMissingScriptsOf(n, txscripts) ==
    LET received_hashes == DOMAIN txscripts
        needed_hashes == [i \in DOMAIN n |-> n[i].hash]
        missing == SelectSeq(needed_hashes, LAMBDA x : x \notin received_hashes)
        extra == SelectSeq(KeysOf(txscripts), LAMBDA x : ~Contains(needed_hashes, x))
    IN  IF missing # <<>> \/ extra # <<>>
        THEN PanicMismatch("unreachable", missing, extra)
        ELSE Ok

----------------------------------------------------------------------------
(* build_redeemer_key *)

RedeemersKey(tag, index) == [tag |-> tag, index |-> index]

\* Result<Option<RedeemersKey>, Error>
KeySome(k) == [kind |-> "Ok", some |-> TRUE, key |-> k]
KeyNone == [kind |-> "Ok", some |-> FALSE, key |-> RedeemersKey("", 0)]
KeyErr(e) == [kind |-> "Err", some |-> FALSE, key |-> RedeemersKey(e, 0)]
KeyPanic(e) == [kind |-> "Panic", some |-> FALSE, key |-> RedeemersKey(e, 0)]

\* Option<usize>.map(|index| RedeemersKey { tag, index })
KeyOfPosition(tag, position) ==
    IF position < 0 THEN KeyNone ELSE KeySome(RedeemersKey(tag, position))

MintingKey(t, hash) == KeyOfPosition("Mint", Position(SortedPolicies(t.mint), hash))

SpendingKey(t, txin) == KeyOfPosition("Spend", Position(SortedInputs(t.inputs), txin))

\* the loop over the sorted reward accounts from position idx (from 1) on;
\* redeemer_key is the variable the loop assigns
RECURSIVE RewardingLoop(_, _, _, _)
RewardingLoop(reward_accounts, idx, racnt, redeemer_key) ==
    IF idx > Len(reward_accounts) THEN redeemer_key
    ELSE LET address == AddressFromBytes(reward_accounts[idx])
         IN  IF ~address.ok THEN KeyPanic("unwrap")
             ELSE IF address.variant # "Stake" THEN KeyErr("BadWithdrawalAddress")
             ELSE IF address.payload = "Script" /\ Scripthash(address.hash) = racnt
             THEN RewardingLoop(reward_accounts, idx + 1, racnt,
                                KeySome(RedeemersKey("Reward", idx - 1)))
             ELSE RewardingLoop(reward_accounts, idx + 1, racnt, redeemer_key)

RewardingKey(t, racnt) == RewardingLoop(SortedAccounts(t.withdrawals), 1, racnt, KeyNone)

CertifyingKey(t, d) == KeyOfPosition("Cert", Position(t.certificates, d))

BuildRedeemerKey(t, script_purpose) ==
    CASE script_purpose.tag = "Minting" -> MintingKey(t, script_purpose.policy)
      [] script_purpose.tag = "Spending" -> SpendingKey(t, script_purpose.input)
      [] script_purpose.tag = "Rewarding" -> RewardingKey(t, script_purpose.cred)
      [] script_purpose.tag = "Certifying" -> CertifyingKey(t, script_purpose.cert)

----------------------------------------------------------------------------
(* has_exact_set_of_redeemers *)

Required(key, purpose, hash) ==
    [redeemer_key |-> key, script_purpose |-> purpose, script_hash |-> hash]

\* a match that gives native scripts a redeemer too
NeedsRedeemer_NativeToo(script) == TRUE

\* whether a script of this version gets a redeemer (the match on ScriptVersion)
NeedsRedeemer(script) ==
    CASE script = "V1" -> TRUE
      [] script = "V2" -> TRUE
      [] script = "V3" -> TRUE
      [] script = "Native" -> FALSE

\* the loop over `needed`; acc is the vector redeemers_needed so far.  The result
\* is [kind, error, list]: the `?` returns the error of build_redeemer_key
RECURSIVE RedeemersNeeded(_, _, _, _)
RedeemersNeeded(t, n, tx_scripts, acc) ==
    IF n = <<>> THEN [kind |-> "Ok", error |-> "", list |-> acc]
    ELSE LET script_purpose == Head(n).purpose
             script_hash == Head(n).hash
             redeemer_key == BuildRedeemerKey(t, script_purpose)
         IN  IF redeemer_key.kind # "Ok"
             THEN [kind |-> redeemer_key.kind, error |-> redeemer_key.key.tag, list |-> <<>>]
             ELSE IF redeemer_key.some /\ script_hash \in DOMAIN tx_scripts
                       /\ NeedsRedeemer(tx_scripts[script_hash])
             THEN RedeemersNeeded(t, Tail(n), tx_scripts,
                      Append(acc, Required(redeemer_key.key, script_purpose, script_hash)))
             ELSE RedeemersNeeded(t, Tail(n), tx_scripts, acc)

\* `extra` computed without its filter: every witness key is reported
HasExactSetOfRedeemersOf_NoFilter(t, n, tx_scripts) ==
    LET built == RedeemersNeeded(t, n, tx_scripts, <<>>)
        redeemers_needed == built.list
        wits_redeemer_keys == t.redeemer
        missing == SelectSeq(redeemers_needed,
                             LAMBDA x : ~Contains(wits_redeemer_keys, x.redeemer_key))
        extra == wits_redeemer_keys
    IN  IF built.kind = "Err" THEN Err(built.error)
        ELSE IF built.kind = "Panic" THEN Panic(built.error)
        ELSE IF missing # <<>> \/ extra # <<>>
        THEN Mismatch("RequiredRedeemersMismatch", missing, extra)
        ELSE Ok

HasExactSetOfRedeemersOf(t, n, tx_scripts) ==
    LET built == RedeemersNeeded(t, n, tx_scripts, <<>>)
        redeemers_needed == built.list
        wits_redeemer_keys == t.redeemer
        needed_redeemer_keys == [i \in DOMAIN redeemers_needed |-> redeemers_needed[i].redeemer_key]
        missing == SelectSeq(redeemers_needed,
                             LAMBDA x : ~Contains(wits_redeemer_keys, x.redeemer_key))
        extra == SelectSeq(wits_redeemer_keys, LAMBDA x : ~Contains(needed_redeemer_keys, x))
    IN  IF built.kind = "Err" THEN Err(built.error)
        ELSE IF built.kind = "Panic" THEN Panic(built.error)
        ELSE IF missing # <<>> \/ extra # <<>>
        THEN Mismatch("RequiredRedeemersMismatch", missing, extra)
        ELSE Ok

----------------------------------------------------------------------------
(* eval_phase_one *)

EvalPhaseOneOf(t, us, lookup_table) ==
    LET scripts_needed == ScriptsNeededOf(t, us)
        validated == ValidateMissingScriptsOf(scripts_needed.needed, lookup_table)
    IN  IF scripts_needed.kind # "Ok" THEN scripts_needed
        ELSE IF validated.kind # "Ok" THEN validated
        ELSE HasExactSetOfRedeemersOf(t, scripts_needed.needed, lookup_table)

----------------------------------------------------------------------------
(* Inputs of a call *)

\* keys of the witness redeemer map
RedeemersKeys == [tag : RedeemerTags, index : {0, 1}]

TagRank(tag) ==
    CASE tag = "Spend" -> 0 [] tag = "Mint" -> 1 [] tag = "Cert" -> 2 [] tag = "Reward" -> 3

\* a set of redeemer keys as the key sequence of the witness map, in the order of
\* the keys (tag, then index)
RECURSIVE KeySeq(_)
KeySeq(S) ==
    IF S = {} THEN <<>>
    ELSE LET k == CHOOSE x \in S : \A y \in S :
                      LexLess(<<TagRank(x.tag), x.index>>, <<TagRank(y.tag), y.index>>) \/ x = y
         IN  <<k>> \o KeySeq(S \ {k})

Flag(b) == IF b THEN 1 ELSE 0

\* the resolved inputs: one for each input but those of `absent`, in the inputs' order
Resolve(inputs, address, absent) ==
    LET present == SelectSeq(inputs, LAMBDA i : i \notin absent)
    IN  [k \in DOMAIN present |-> [input |-> present[k], address |-> address[present[k]]]]

ScriptTables == UNION {[D -> ScriptVersions] : D \in SUBSET Hashes}

\* the subsets of S with n elements
SubsetsOfSize(S, n) == {Range(q) : q \in SeqsNoDup(S, n)}

Init ==
    /\ \E ni \in 0..MaxSize : \E nw \in 0..(MaxSize - ni) :
       \E nc \in 0..(MaxSize - ni - nw) : \E nm \in 0..(MaxSize - ni - nw - nc) :
       \E proposal, voting \in BOOLEAN :
       \E ns \in 0..(MaxSize - ni - nw - nc - nm - Flag(proposal) - Flag(voting)) :
       \E nr \in 0..(MaxSize - ni - nw - nc - nm - Flag(proposal) - Flag(voting) - ns) :
          /\ \E table \in {t \in ScriptTables : Cardinality(DOMAIN t) = ns} : scripts = table
          /\ \E inputs \in SeqsNoDup(OutputRefs, ni) :
             \E absent \in SUBSET Range(inputs) :
             \E address \in [Range(inputs) \ absent -> Addresses] :
                /\ utxos = Resolve(inputs, address, absent)
                /\ \E withdrawals \in SeqsNoDup(RewardAccounts, nw) :
                   \E certificates \in SeqsNoDup(Certificates, nc) :
                   \E mint \in SeqsNoDup(Hashes, nm) :
                   \E keys \in SubsetsOfSize(RedeemersKeys, nr) :
                      tx = [inputs |-> inputs, withdrawals |-> withdrawals,
                            certificates |-> certificates, mint |-> mint,
                            proposal_procedures |-> proposal, voting_procedures |-> voting,
                            redeemer |-> KeySeq(keys)]
    /\ pc = "start"
    /\ needed = <<>>
    /\ result = NotCalled

----------------------------------------------------------------------------
(* The calls *)

ScriptsNeeded ==
    /\ pc = "start"
    /\ result' = ScriptsNeededOf(tx, utxos)
    /\ needed' = result'.needed
    /\ pc' = "scripts_needed"
    /\ UNCHANGED <<tx, utxos, scripts>>

\* called on the output of scripts_needed
ValidateMissingScripts ==
    /\ pc = "scripts_needed"
    /\ result.kind = "Ok"
    /\ result' = ValidateMissingScriptsOf(needed, scripts)
    /\ pc' = "validate_missing_scripts"
    /\ UNCHANGED <<tx, utxos, scripts, needed>>

\* called on the output of scripts_needed
HasExactSetOfRedeemers ==
    /\ pc = "scripts_needed"
    /\ result.kind = "Ok"
    /\ result' = HasExactSetOfRedeemersOf(tx, needed, scripts)
    /\ pc' = "has_exact_set_of_redeemers"
    /\ UNCHANGED <<tx, utxos, scripts, needed>>

EvalPhaseOne ==
    /\ pc = "start"
    /\ result' = EvalPhaseOneOf(tx, utxos, scripts)
    /\ needed' = ScriptsNeededOf(tx, utxos).needed
    /\ pc' = "eval_phase_one"
    /\ UNCHANGED <<tx, utxos, scripts>>

Next ==
    \/ ScriptsNeeded
    \/ ValidateMissingScripts
    \/ HasExactSetOfRedeemers
    \/ EvalPhaseOne

Spec == Init /\ [][Next]_vars

----------------------------------------------------------------------------
(* Reading an outcome *)

\* the hashes of a purpose list, as a set
HashSet(n) == {n[i].hash : i \in DOMAIN n}

\* the resolved address of an input
AddressOf(input) == AddressFromBytes(utxos[FindUtxo(utxos, input)].address)

\* a script of the table that is not a native script
NonNative(h) == h \in DOMAIN scripts /\ scripts[h] # "Native"

\* the call of has_exact_set_of_redeemers computed every key: it returned Ok or
\* the mismatch of the two key sets
KeysComputed ==
    /\ pc = "has_exact_set_of_redeemers"
    /\ result.kind = "Ok" \/ result.error = "RequiredRedeemersMismatch"

\* what the outcome of has_exact_set_of_redeemers shows of the required set: the
\* key k is required for the purpose p when it is reported missing for p or, being
\* a key of the witness map, is not reported extraneous
ShownRequired(k, p) ==
    IF Contains(tx.redeemer, k)
    THEN ~Contains(result.extra, k)
    ELSE \E i \in DOMAIN result.missing :
            result.missing[i].redeemer_key = k /\ result.missing[i].script_purpose = p

\* the order of inputs: by transaction_id, then by index
RefBefore(a, b) ==
    \/ a.transaction_id < b.transaction_id
    \/ a.transaction_id = b.transaction_id /\ a.index < b.index

\* the order of the two-byte strings <<header, hash>>
BytesBefore(a, b) == a[1] < b[1] \/ (a[1] = b[1] /\ a[2] < b[2])

\* the position (from 0) of x in the ascending order of the distinct elements of s
Rank(s, x, Before(_, _)) == Cardinality({i \in DOMAIN s : Before(s[i], x)})

\* the i-th purpose of `needed` gets a redeemer: its script is not native and its
\* key is found
Req(i) == NonNative(needed[i].hash) /\ BuildRedeemerKey(tx, needed[i].purpose).some

KeyAt(i) == BuildRedeemerKey(tx, needed[i].purpose).key

\* the required redeemer keys and the keys of the witness map, as sets
R_need == {KeyAt(i) : i \in {j \in DOMAIN needed : Req(j)}}
R_have == Range(tx.redeemer)

----------------------------------------------------------------------------
(* Claims on the error values *)

\* C1: validate_missing_scripts returns Ok exactly when the hashes of `needed` are
\* the keys of the script table, and otherwise returns, as a value, a
\* ScriptSetMismatch whose `missing` is N \ S and whose `extra` is S \ N
C1_MismatchReturnedByValue ==
    pc = "validate_missing_scripts" =>
        LET N == HashSet(needed)
            S == DOMAIN scripts
        IN  IF N = S THEN result.kind = "Ok"
            ELSE /\ result.kind = "Err"
                 /\ result.error = "ScriptSetMismatch"
                 /\ Range(result.missing) = N \ S
                 /\ Range(result.extra) = S \ N

\* C2: with proposal_procedures or voting_procedures present, scripts_needed and
\* eval_phase_one return an error value (GovernanceUnsupported, or the error of
\* the spending pass before it): they neither return Ok nor abort
C2_GovernanceReturnsError ==
    /\ pc \in {"scripts_needed", "eval_phase_one"}
    /\ tx.proposal_procedures \/ tx.voting_procedures
    => /\ result.kind = "Err"
       /\ result.error \in {"GovernanceUnsupported", "ResolvedInputNotFound", "AddressDecode"}

\* some key of tx.withdrawals decodes to an address that is not a stake address
HasBadWithdrawal ==
    \E i \in DOMAIN tx.withdrawals :
        LET address == AddressFromBytes(tx.withdrawals[i])
        IN  address.ok /\ address.variant # "Stake"

\* C3: eval_phase_one never returns Ok for a transaction one of whose withdrawal
\* keys is not a stake address
C3_BadWithdrawalNeverOk ==
    pc = "eval_phase_one" /\ HasBadWithdrawal => result.kind # "Ok"

\* C10: has_exact_set_of_redeemers aborts when a hash of `needed` is not a key of
\* the script table
C10_UnknownHashAborts ==
    /\ pc = "has_exact_set_of_redeemers"
    /\ \E i \in DOMAIN needed : needed[i].hash \notin DOMAIN scripts
    => result.kind = "Panic"

----------------------------------------------------------------------------
(* Claims on the redeemer pointers *)

\* C6: for every withdrawal key that is a stake address of a non-native script,
\* (Reward, i) is required, i being the position of the account's bytes in the
\* ascending order of all withdrawal keys
C6_RewardPointerPerAccount ==
    KeysComputed =>
        \A i \in DOMAIN tx.withdrawals :
            LET account == tx.withdrawals[i]
                address == AddressFromBytes(account)
            IN  address.variant = "Stake" /\ address.payload = "Script" /\ NonNative(address.hash)
                => ShownRequired(RedeemersKey("Reward", Rank(tx.withdrawals, account, BytesBefore)),
                                 Rewarding(Scripthash(address.hash)))

\* C5: for every input locked by a non-native script, (Spend, i) is required for
\* its Spending purpose, i being the position of the input among all the inputs,
\* key-locked ones included, in the order of (transaction_id, index)
C5_SpendPointerOverAllInputs ==
    KeysComputed =>
        \A i \in DOMAIN tx.inputs :
            LET input == tx.inputs[i]
                address == AddressOf(input)
            IN  address.variant = "Shelley" /\ address.payload = "Script" /\ NonNative(address.hash)
                => ShownRequired(RedeemersKey("Spend", Rank(tx.inputs, input, RefBefore)),
                                 Spending(input))

\* a script-locked input sorts after a key-locked input that follows it in
\* tx.inputs, and the outcome reports its pointer (Spend, 1) missing
C5_Witness ==
    /\ KeysComputed
    /\ Len(tx.inputs) = 2
    /\ RefBefore(tx.inputs[2], tx.inputs[1])
    /\ AddressOf(tx.inputs[2]).payload = "Key"
    /\ AddressOf(tx.inputs[1]).payload = "Script"
    /\ NonNative(AddressOf(tx.inputs[1]).hash)
    /\ \E j \in DOMAIN result.missing :
          /\ result.missing[j].redeemer_key = RedeemersKey("Spend", 1)
          /\ result.missing[j].script_purpose = Spending(tx.inputs[1])

\* C4: has_exact_set_of_redeemers, once the keys are computed, returns Ok exactly
\* when the required keys are the keys of the witness map; otherwise it returns
\* RequiredRedeemersMismatch, `missing` being the required entries whose key the
\* witness map lacks and `extra` the witness keys not required, with no key on
\* both sides
C4_ExactSetOfRedeemers ==
    KeysComputed =>
        LET need == R_need
            have == R_have
            entries == [i \in DOMAIN needed |->
                          IF Req(i) /\ KeyAt(i) \notin have
                          THEN <<Required(KeyAt(i), needed[i].purpose, needed[i].hash)>>
                          ELSE <<>>]
        IN  /\ result.kind = "Ok" <=> need = have
            /\ need # have =>
                /\ result.error = "RequiredRedeemersMismatch"
                /\ \A j \in DOMAIN result.missing : \E i \in DOMAIN needed :
                      entries[i] = <<result.missing[j]>>
                /\ \A i \in DOMAIN needed : entries[i] # <<>> =>
                      \E j \in DOMAIN result.missing : entries[i] = <<result.missing[j]>>
                /\ Range(result.extra) = have \ need
                /\ {result.missing[j].redeemer_key : j \in DOMAIN result.missing}
                      \cap Range(result.extra) = {}

\* a mismatch with a missing and an extraneous key
C4_Witness ==
    /\ KeysComputed
    /\ result.missing # <<>>
    /\ result.extra # <<>>

\* the orders a sequence of distinct elements can be given
Perms(s) == SeqsNoDup(Range(s), Len(s))

\* the transaction with its inputs, withdrawals and minted policies reordered
Reorderings ==
    {[tx EXCEPT !.inputs = a, !.withdrawals = b, !.mint = c] :
        a \in Perms(tx.inputs), b \in Perms(tx.withdrawals), c \in Perms(tx.mint)}

\* the required redeemer keys of the transaction t, or how computing them ended
RequiredKeysOf(t) ==
    LET n == ScriptsNeededOf(t, utxos)
        built == RedeemersNeeded(t, n.needed, scripts, <<>>)
    IN  IF n.kind # "Ok" THEN [kind |-> n.kind, keys |-> {}]
        ELSE [kind |-> built.kind,
              keys |-> {built.list[i].redeemer_key : i \in DOMAIN built.list}]

\* C7: reordering tx.inputs, tx.withdrawals and tx.mint changes neither the set of
\* required redeemer keys nor whether eval_phase_one returns Ok
C7_StableUnderReordering ==
    pc = "eval_phase_one" =>
        LET required == RequiredKeysOf(tx)
        IN  \A t \in Reorderings :
                /\ RequiredKeysOf(t) = required
                /\ EvalPhaseOneOf(t, utxos, scripts).kind = result.kind

\* eval_phase_one has run on two inputs given against their order, the first of
\* them locked by a non-native script whose pointer is therefore (Spend, 1)
C7_Witness ==
    /\ pc = "eval_phase_one"
    /\ Len(tx.inputs) = 2
    /\ RefBefore(tx.inputs[2], tx.inputs[1])
    /\ RequiredKeysOf(tx) = [kind |-> "Ok", keys |-> {RedeemersKey("Spend", 1)}]
    /\ result.error = "RequiredRedeemersMismatch"

\* C8: a purpose whose script is native counts for validate_missing_scripts but
\* gets no redeemer, a purpose whose script is PlutusV1, V2 or V3 gets its key;
\* a transaction of native purposes only passes with no redeemer
C8_NativeExclusion ==
    /\ pc = "validate_missing_scripts" =>
          /\ \A i \in DOMAIN needed :
                needed[i].hash \in DOMAIN scripts /\ scripts[needed[i].hash] = "Native"
                => ~Contains(result.extra, needed[i].hash)
          /\ HashSet(needed) = DOMAIN scripts => result.kind = "Ok"
    /\ KeysComputed =>
          \A i \in DOMAIN needed :
              LET h == needed[i].hash
                  p == needed[i].purpose
                  k == BuildRedeemerKey(tx, p)
              IN  /\ h \in DOMAIN scripts /\ scripts[h] \in {"V1", "V2", "V3"} /\ k.some
                     => ShownRequired(k.key, p)
                  /\ h \in DOMAIN scripts /\ scripts[h] = "Native" =>
                        /\ \A j \in DOMAIN result.missing :
                              ~(result.missing[j].script_purpose = p
                                  /\ result.missing[j].script_hash = h)
                        /\ k.some /\ k.key \in R_have /\ k.key \notin R_need
                              => Contains(result.extra, k.key)
    /\ /\ pc = "eval_phase_one"
       /\ ScriptsNeededOf(tx, utxos).kind = "Ok"
       /\ ~HasBadWithdrawal
       /\ HashSet(needed) = DOMAIN scripts
       /\ \A h \in DOMAIN scripts : scripts[h] = "Native"
       /\ tx.redeemer = <<>>
       => result.kind = "Ok"

\* eval_phase_one has accepted, with no redeemer, a transaction with a purpose,
\* all of whose purposes are native
C8_Witness ==
    /\ pc = "eval_phase_one"
    /\ needed # <<>>
    /\ HashSet(needed) = DOMAIN scripts
    /\ \A h \in DOMAIN scripts : scripts[h] = "Native"
    /\ tx.redeemer = <<>>
    /\ result.kind = "Ok"

----------------------------------------------------------------------------
(* Claims on the purpose list *)

ScriptLocked(input) ==
    AddressOf(input).variant = "Shelley" /\ AddressOf(input).payload = "Script"

ScriptAccount(account) ==
    AddressFromBytes(account).variant = "Stake" /\ AddressFromBytes(account).payload = "Script"

ScriptCertificate(cert) ==
    cert.kind # "StakeRegistration" /\ cert.cred.tag = "Scripthash"

\* the entries of the elements of the container s that need a script, in s's order
Bucket(s, Needs(_), Purpose(_), Hash(_)) ==
    LET kept == SelectSeq(s, Needs)
    IN  [i \in DOMAIN kept |-> Entry(Purpose(kept[i]), Hash(kept[i]))]

\* C9: the output of scripts_needed is the spending purposes, then the rewarding,
\* the certifying and the minting ones, each group in the order of its container
C9_PurposeOrder ==
    pc = "scripts_needed" /\ result.kind = "Ok" =>
        /\ result.needed = needed
        /\ needed =
              Bucket(tx.inputs, ScriptLocked, Spending, LAMBDA i : AddressOf(i).hash)
                \o Bucket(tx.withdrawals, ScriptAccount,
                          LAMBDA a : Rewarding(Scripthash(a[2])), LAMBDA a : a[2])
                \o Bucket(tx.certificates, ScriptCertificate, Certifying, LAMBDA c : c.cred.hash)
                \o Bucket(tx.mint, LAMBDA m : TRUE, Minting, LAMBDA m : m)

\* a certifying purpose precedes two minting purposes, which keep the order of
\* tx.mint against the order of the policy ids
C9_Witness ==
    /\ pc = "scripts_needed"
    /\ result.kind = "Ok"
    /\ Len(needed) = 3
    /\ needed[1].purpose.tag = "Certifying"
    /\ needed[2].purpose = Minting(2)
    /\ needed[3].purpose = Minting(1)

====
